---- MODULE Spec2Model ----
(***************************************************************************)
(* A model of the self-updating program of src/unnamed/part_000: the       *)
(* remote call with retry (secureFetchWithRetry), the integrity validator  *)
(* (validateCodeIntegrity), the file replacer (safeWriteWithBackup), the   *)
(* restart supervisor (restartProcess) and the orchestrator (main).        *)
(*                                                                         *)
(* Spec        one run of the program, from module load to process exit.   *)
(* FairSpec    Spec with the fairness of a running event loop.             *)
(* SpecReplace safeWriteWithBackup as a routine, called repeatedly in one  *)
(*             process by an arbitrary caller.                             *)
(***************************************************************************)
EXTENDS Integers, Sequences, FiniteSets, TLC

VARIABLES
    fs,              \* the files on disk: path -> text, or Absent
    pc,              \* position of main (or of the caller in SpecReplace)
    exitCode,        \* <<>> while the process runs, <<c>> after process.exit(c)
    programText,     \* main: `content`, the text read from __filename
    newCode,         \* main: `newCode`, the trimmed candidate text
    primaryError,    \* main: the error caught by the catch of line 191
    fallbackInvoked, \* history: restartProcess() of line 196 was called
    fpc,             \* position of secureFetchWithRetry
    retries,         \* secureFetchWithRetry: parameter `retries`
    requests,        \* history: number of fetch() calls made
    sleeps,          \* history: number of RETRY_DELAY timeouts awaited
    fails,           \* history: number of failed attempts
    response,        \* the value secureFetchWithRetry resolved with
    wpc,             \* position of safeWriteWithBackup
    content,         \* safeWriteWithBackup: parameter `content`
    calls,           \* number of safeWriteWithBackup calls so far (names tempPath)
    werror,          \* safeWriteWithBackup: `error` caught at line 82
    wraised,         \* the error safeWriteWithBackup rejected with
    pre,             \* history: the target's text when the call was made
    fsFailures,      \* history: filesystem operations that failed in this call
    cleanup,         \* history: what the .failed rename of line 87 came to
    rpc,             \* position of restartProcess
    attempt,         \* restartProcess: parameter `attempt`
    spawns,          \* history: execFile calls of the current restart sequence
    children,        \* history: execFile calls of the whole run
    lastSpawn,       \* history: what became of the last spawned child
    rerror           \* the error restartProcess rejected with

mainVars    == <<pc, exitCode, programText, newCode, primaryError, fallbackInvoked>>
fetchVars   == <<fpc, retries, requests, sleeps, fails, response>>
writeVars   == <<wpc, content, calls, werror, wraised, pre, fsFailures, cleanup>>
restartVars == <<rpc, attempt, spawns, children, lastSpawn, rerror>>
vars        == <<fs, mainVars, fetchVars, writeVars, restartVars>>

----------------------------------------------------------------------------
(* Bounds of the model *)

\* safeWriteWithBackup calls the caller of SpecReplace makes in one process
MaxCalls == 2

----------------------------------------------------------------------------
(* Program constants *)

MAX_RETRIES == 3
MAX_RESTART_ATTEMPTS == 5
\* the number of entries of requiredPatterns
NumPatterns == 8

----------------------------------------------------------------------------
(* Texts and files *)

\* requiredPatterns, by index: 1 fs import, 2 child_process import,
\* 3 work(..).then, 4 process.env.SF_API_KEY, 5 validateCodeIntegrity,
\* 6 safeWriteWithBackup, 7 secureFetchWithRetry, 8 main()
requiredPatterns == 1..NumPatterns
API_KEY_PATTERN == 4

\* A text is known by where it came from (id 0: the program on disk at load,
\* id i > 0: the candidate of the i-th safeWriteWithBackup call), by the set
\* of required patterns that match somewhere in it, by whether it carries
\* surrounding whitespace (pad) and by whether it is all there (whole) or cut
\* short by a failed write.
MarkerSets == SUBSET requiredPatterns

Absent == [id |-> 0 - 1, markers |-> {}, pad |-> FALSE, whole |-> FALSE]

\* The program text of part_000 itself: every pattern matches except
\* /work\(.*\)\.then/ (main awaits work(), and the pattern's own source
\* line reads work\( ).
OriginalText == [id |-> 0, markers |-> requiredPatterns \ {3}, pad |-> FALSE, whole |-> TRUE]

\* pattern.test(code)
PatternTest(pattern, code) == pattern \in code.markers

\* mutant of validateCodeIntegrity: the last pattern is not tested
validateCodeIntegrity_skipsLast(code) ==
    \A pattern \in requiredPatterns \ {NumPatterns} : PatternTest(pattern, code)

validateCodeIntegrity(code) == \A pattern \in requiredPatterns : PatternTest(pattern, code)

\* String.prototype.trim
Trim(text) == [text EXCEPT !.pad = FALSE]

targetPath == <<"target", 0>>
backupPath == <<"backup", 0>>       \* targetPath + BACKUP_SUFFIX, fixed at module load
TempPathOf(n) == <<"tmp", n>>       \* targetPath.tmp.<Date.now()>.ts of the n-th call
FailedPathOf(n) == <<"failed", n>>  \* tempPath + ".failed"
tempPath == TempPathOf(calls)
failedPath == FailedPathOf(calls)

Paths == {targetPath, backupPath}
            \cup {TempPathOf(n) : n \in 1..MaxCalls}
            \cup {FailedPathOf(n) : n \in 1..MaxCalls}

existsSync(path) == fs[path] # Absent

\* fs.rename that succeeds: the destination is replaced, the source is gone
Rename(f, from, to) == [f EXCEPT ![to] = f[from], ![from] = Absent]

\* what a failed writeFile can leave at the path: nothing, or a cut-off file
Partial(text) == [text EXCEPT !.whole = FALSE]

----------------------------------------------------------------------------
(* safeWriteWithBackup(content, targetPath), lines 57-97 *)

\* the call itself: the parameters are bound and tempPath is named (line 61)
CallSafeWrite(text) ==
    /\ calls' = calls + 1
    /\ content' = text
    /\ wpc' = "writeTemp"
    /\ werror' = "none"
    /\ wraised' = "none"
    /\ pre' = fs[targetPath]
    /\ fsFailures' = 0
    /\ cleanup' = "none"

\* line 65: await writeFile(tempPath, content)
safeWrite_writeTemp ==
    /\ wpc = "writeTemp"
    /\ \/ /\ fs' = [fs EXCEPT ![tempPath] = content]
          /\ wpc' = "validate"
          /\ UNCHANGED <<werror, fsFailures>>
       \/ /\ \E left \in {Absent, Partial(content)} : fs' = [fs EXCEPT ![tempPath] = left]
          /\ werror' = "writeFile"
          /\ fsFailures' = fsFailures + 1
          /\ wpc' = "cleanTemp"
    /\ UNCHANGED <<content, calls, wraised, pre, cleanup, mainVars, fetchVars, restartVars>>

\* mutant of safeWrite_validate: the integrity check is left out
safeWrite_validate_skipped ==
    /\ wpc = "validate"
    /\ wpc' = "backup"
    /\ UNCHANGED <<fs, content, calls, werror, wraised, pre, fsFailures, cleanup, mainVars, fetchVars,
                   restartVars>>

\* lines 68-70: the integrity check of the in-memory content
safeWrite_validate ==
    /\ wpc = "validate"
    /\ IF validateCodeIntegrity(content)
          THEN wpc' = "backup" /\ UNCHANGED werror
          ELSE wpc' = "cleanTemp" /\ werror' = "integrity"
    /\ UNCHANGED <<fs, content, calls, wraised, pre, fsFailures, cleanup, mainVars, fetchVars, restartVars>>

\* mutant of safeWrite_backup: the target is not moved to the backup path
safeWrite_backup_skipped ==
    /\ wpc = "backup"
    /\ wpc' = "commit"
    /\ UNCHANGED <<fs, content, calls, werror, wraised, pre, fsFailures, cleanup, mainVars, fetchVars,
                   restartVars>>

\* lines 73-75: if the target exists, rename it to the backup path
safeWrite_backup ==
    /\ wpc = "backup"
    /\ IF existsSync(targetPath)
          THEN \/ /\ fs' = Rename(fs, targetPath, backupPath)
                  /\ wpc' = "commit"
                  /\ UNCHANGED <<werror, fsFailures>>
               \/ /\ werror' = "renameBackup"
                  /\ fsFailures' = fsFailures + 1
                  /\ wpc' = "cleanTemp"
                  /\ UNCHANGED fs
          ELSE wpc' = "commit" /\ UNCHANGED <<fs, werror, fsFailures>>
    /\ UNCHANGED <<content, calls, wraised, pre, cleanup, mainVars, fetchVars, restartVars>>

\* line 78: rename the temp file to the target; on success the call returns
safeWrite_commit ==
    /\ wpc = "commit"
    /\ \/ /\ fs' = Rename(fs, tempPath, targetPath)
          /\ wpc' = "returned"
          /\ UNCHANGED <<werror, fsFailures>>
       \/ /\ werror' = "renameCommit"
          /\ fsFailures' = fsFailures + 1
          /\ wpc' = "cleanTemp"
          /\ UNCHANGED fs
    /\ UNCHANGED <<content, calls, wraised, pre, cleanup, mainVars, fetchVars, restartVars>>

\* mutant of safeWrite_cleanTemp: the temp file is not looked at
safeWrite_cleanTemp_skipped ==
    /\ wpc = "cleanTemp"
    /\ cleanup' = "noTemp"
    /\ wpc' = "restore"
    /\ UNCHANGED <<fs, fsFailures, content, calls, werror, wraised, pre, mainVars, fetchVars,
                   restartVars>>

\* lines 86-88: rename the temp file to tempPath.failed; a failure is swallowed
safeWrite_cleanTemp ==
    /\ wpc = "cleanTemp"
    /\ IF existsSync(tempPath)
          THEN \/ /\ fs' = Rename(fs, tempPath, failedPath)
                  /\ cleanup' = "renamed"
                  /\ UNCHANGED fsFailures
               \/ /\ fsFailures' = fsFailures + 1
                  /\ cleanup' = "failed"
                  /\ UNCHANGED fs
          ELSE cleanup' = "noTemp" /\ UNCHANGED <<fs, fsFailures>>
    /\ wpc' = "restore"
    /\ UNCHANGED <<content, calls, werror, wraised, pre, mainVars, fetchVars, restartVars>>

\* mutant of safeWrite_restore: the error is rethrown without any rollback
safeWrite_restore_never ==
    /\ wpc = "restore"
    /\ wraised' = werror
    /\ wpc' = "raised"
    /\ UNCHANGED <<fs, content, calls, werror, pre, fsFailures, cleanup, mainVars, fetchVars,
                   restartVars>>

\* mutant of safeWrite_restore: the rollback tests the temp path, not the
\* backup path, before renaming the backup
safeWrite_restore_testsTemp ==
    /\ wpc = "restore"
    /\ IF existsSync(tempPath) /\ existsSync(backupPath)
          THEN \/ /\ fs' = Rename(fs, backupPath, targetPath)
                  /\ wraised' = werror
                  /\ UNCHANGED fsFailures
               \/ /\ wraised' = "renameRestore"
                  /\ fsFailures' = fsFailures + 1
                  /\ UNCHANGED fs
          ELSE wraised' = werror /\ UNCHANGED <<fs, fsFailures>>
    /\ wpc' = "raised"
    /\ UNCHANGED <<content, calls, werror, pre, cleanup, mainVars, fetchVars, restartVars>>

\* lines 91-95: if a file exists at the backup path, rename it to the target;
\* then rethrow `error`. A failure of this rename rejects the call with the
\* rename's error instead.
safeWrite_restore ==
    /\ wpc = "restore"
    /\ IF existsSync(backupPath)
          THEN \/ /\ fs' = Rename(fs, backupPath, targetPath)
                  /\ wraised' = werror
                  /\ UNCHANGED fsFailures
               \/ /\ wraised' = "renameRestore"
                  /\ fsFailures' = fsFailures + 1
                  /\ UNCHANGED fs
          ELSE wraised' = werror /\ UNCHANGED <<fs, fsFailures>>
    /\ wpc' = "raised"
    /\ UNCHANGED <<content, calls, werror, pre, cleanup, mainVars, fetchVars, restartVars>>

----------------------------------------------------------------------------
(* A caller of safeWriteWithBackup: any content, call after call *)

\* the candidate texts the caller passes: all patterns, all but one, none
CallerMarkerSets ==
    {requiredPatterns, {}} \cup {requiredPatterns \ {p} : p \in requiredPatterns}

CallerCall ==
    /\ pc = "caller"
    /\ wpc \in {"idle", "returned", "raised"}
    /\ calls < MaxCalls
    /\ \E m \in CallerMarkerSets :
          CallSafeWrite([id |-> calls + 1, markers |-> m, pad |-> FALSE, whole |-> TRUE])
    /\ UNCHANGED <<fs, mainVars, fetchVars, restartVars>>

InitFiles == [p \in Paths |-> IF p = targetPath THEN OriginalText ELSE Absent]

InitCommon ==
    /\ fs = InitFiles
    /\ exitCode = <<>>
    /\ programText = Absent
    /\ newCode = Absent
    /\ primaryError = "none"
    /\ fallbackInvoked = FALSE
    /\ fpc = "idle" /\ retries = 0 /\ requests = 0 /\ sleeps = 0 /\ fails = 0
    /\ response = [shape |-> "none", text |-> Absent]
    /\ wpc = "idle" /\ content = Absent /\ calls = 0
    /\ werror = "none" /\ wraised = "none" /\ pre = Absent /\ fsFailures = 0
    /\ cleanup = "none"
    /\ rpc = "idle" /\ attempt = 0 /\ spawns = 0 /\ children = 0
    /\ lastSpawn = "none" /\ rerror = "none"

InitReplace == InitCommon /\ pc = "caller"

NextReplace ==
    \/ CallerCall
    \/ safeWrite_writeTemp
    \/ safeWrite_validate
    \/ safeWrite_backup
    \/ safeWrite_commit
    \/ safeWrite_cleanTemp
    \/ safeWrite_restore

SpecReplace == InitReplace /\ [][NextReplace]_vars

----------------------------------------------------------------------------
(* secureFetchWithRetry(url, options, retries = MAX_RETRIES), lines 12-34 *)

\* what one fetch() attempt can come to: the request rejects (network), the
\* status is not ok (line 19), response.json() rejects (line 23), or a
\* parsed body is returned
TransportFailures == {"network", "status", "badJson"}

\* the parsed bodies: response.choices[0].message.content is missing, is the
\* empty string, is a truthy value that is no string, or is a text
CandidateTexts == [id : {1}, markers : MarkerSets, pad : BOOLEAN, whole : {TRUE}]

Responses ==
    [shape : {"missing", "empty", "nonString"}, text : {Absent}]
        \cup [shape : {"text"}, text : CandidateTexts]

\* line 25: the catch block retries while retries > 0
CanRetry(r) == r > 0

\* lines 18-32: one attempt, and what the catch block decides
secureFetch_request ==
    /\ fpc = "request"
    /\ requests' = requests + 1
    /\ \/ /\ \E r \in Responses : response' = r
          /\ fpc' = "returned"
          /\ UNCHANGED fails
       \/ /\ \E failure \in TransportFailures : fails' = fails + 1
          /\ fpc' = IF CanRetry(retries) THEN "sleep" ELSE "raised"
          /\ UNCHANGED response
    /\ UNCHANGED <<retries, sleeps, fs, mainVars, writeVars, restartVars>>

\* mutant of secureFetch_sleep: only the first retry waits for the timeout
secureFetch_sleep_firstOnly ==
    /\ fpc = "sleep"
    /\ sleeps' = IF retries = MAX_RETRIES THEN sleeps + 1 ELSE sleeps
    /\ retries' = retries - 1
    /\ fpc' = "request"
    /\ UNCHANGED <<requests, fails, response, fs, mainVars, writeVars, restartVars>>

\* lines 27-28: await the RETRY_DELAY timeout, then recurse with retries - 1
secureFetch_sleep ==
    /\ fpc = "sleep"
    /\ sleeps' = sleeps + 1
    /\ retries' = retries - 1
    /\ fpc' = "request"
    /\ UNCHANGED <<requests, fails, response, fs, mainVars, writeVars, restartVars>>

----------------------------------------------------------------------------
(* restartProcess(attempt = 1), lines 141-166 *)

\* what becomes of an execFile call: it throws synchronously (a spawn error
\* libuv does not defer), or it returns a child that would go on to run
\* cleanly, to report a spawn error to the callback of line 149, or to exit
\* with a non-zero code (line 156)
SpawnOutcomes == {"throws", "clean", "spawnError", "nonZeroExit"}

\* The whole synchronous body. The callbacks of lines 149-161 are registered
\* on the child but run on a later turn of the event loop; process.exit(0) at
\* line 164 ends the process in this turn, so neither the retry of line 152
\* nor that of line 159 is ever scheduled.
restartProcess(att) ==
    /\ attempt' = att
    /\ IF att > MAX_RESTART_ATTEMPTS
          THEN /\ rerror' = "exhausted"
               /\ rpc' = "raised"
               /\ UNCHANGED <<spawns, children, lastSpawn, exitCode>>
          ELSE /\ spawns' = (IF att = 1 THEN 0 ELSE spawns) + 1
               /\ children' = children + 1
               /\ \E outcome \in SpawnOutcomes :
                     /\ lastSpawn' = outcome
                     /\ IF outcome = "throws"
                           THEN rpc' = "raised" /\ rerror' = "spawn" /\ UNCHANGED exitCode
                           ELSE rpc' = "exited" /\ exitCode' = <<0>> /\ UNCHANGED rerror

----------------------------------------------------------------------------
(* main, lines 168-202, and the entry point, lines 205-208 *)

\* line 170: readFileSync(__filename); then work() builds the request and
\* calls secureFetchWithRetry with the default retries (line 131)
main_read ==
    /\ pc = "read"
    /\ \/ /\ existsSync(targetPath)
          /\ programText' = fs[targetPath]
          /\ fpc' = "request"
          /\ retries' = MAX_RETRIES
          /\ pc' = "fetching"
          /\ UNCHANGED primaryError
       \/ /\ primaryError' = "readFile"
          /\ pc' = "catch"
          /\ UNCHANGED <<programText, fpc, retries>>
    /\ UNCHANGED <<fs, exitCode, newCode, fallbackInvoked, requests, sleeps, fails,
                   response, writeVars, restartVars>>

\* lines 131-138 and 188-189: work() checks the response shape and trims the
\* content; main passes it to safeWriteWithBackup
main_afterFetch ==
    /\ pc = "fetching"
    /\ fpc \in {"returned", "raised"}
    /\ IF fpc = "returned" /\ response.shape = "text"
          THEN /\ newCode' = Trim(response.text)
               /\ CallSafeWrite(Trim(response.text))
               /\ pc' = "writing"
               /\ UNCHANGED primaryError
          ELSE /\ primaryError' = IF fpc = "raised" THEN "apiFailed"
                                  ELSE IF response.shape = "nonString" THEN "typeError"
                                  ELSE "invalidResponse"
               /\ pc' = "catch"
               /\ UNCHANGED <<newCode, writeVars>>
    /\ UNCHANGED <<fs, exitCode, programText, fallbackInvoked, fetchVars, restartVars>>

\* mutant of main_afterWrite: the replace is not awaited
main_afterWrite_notAwaited ==
    /\ pc = "writing"
    /\ pc' = "restart"
    /\ UNCHANGED <<fs, exitCode, programText, newCode, primaryError, fallbackInvoked,
                   fetchVars, writeVars, restartVars>>

\* mutant of main_afterWrite: the catch block is entered whether the replace
\* resolved or rejected
main_afterWrite_toCatch ==
    /\ pc = "writing"
    /\ wpc \in {"returned", "raised"}
    /\ pc' = "catch"
    /\ primaryError' = wraised
    /\ UNCHANGED <<fs, exitCode, programText, newCode, fallbackInvoked, fetchVars,
                   writeVars, restartVars>>

\* line 189 resolves or rejects
main_afterWrite ==
    /\ pc = "writing"
    /\ wpc \in {"returned", "raised"}
    /\ IF wpc = "returned"
          THEN pc' = "restart" /\ UNCHANGED primaryError
          ELSE pc' = "catch" /\ primaryError' = wraised
    /\ UNCHANGED <<fs, exitCode, programText, newCode, fallbackInvoked, fetchVars,
                   writeVars, restartVars>>

\* line 190: the primary restart
main_restart ==
    /\ pc = "restart"
    /\ restartProcess(1)
    /\ IF rpc' = "raised"
          THEN pc' = "catch" /\ primaryError' = rerror'
          ELSE pc' = "exited" /\ UNCHANGED primaryError
    /\ UNCHANGED <<fs, programText, newCode, fallbackInvoked, fetchVars, writeVars>>

\* mutant of main_catch: the catch block logs and exits without a restart
main_catch_exitOnly ==
    /\ pc = "catch"
    /\ exitCode' = <<1>>
    /\ pc' = "exited"
    /\ UNCHANGED <<fs, programText, newCode, primaryError, fallbackInvoked, fetchVars,
                   writeVars, restartVars>>

\* mutant of main_catch: the fallback restart carries on from the counter of
\* the primary restart
main_catch_carriesAttempt ==
    /\ pc = "catch"
    /\ fallbackInvoked' = TRUE
    /\ restartProcess(attempt + 1)
    /\ pc' = IF rpc' = "raised" THEN "fatal" ELSE "exited"
    /\ UNCHANGED <<fs, programText, newCode, primaryError, fetchVars, writeVars>>

\* lines 191-196: the catch block logs and calls the fallback restart
main_catch ==
    /\ pc = "catch"
    /\ fallbackInvoked' = TRUE
    /\ restartProcess(1)
    /\ pc' = IF rpc' = "raised" THEN "fatal" ELSE "exited"
    /\ UNCHANGED <<fs, programText, newCode, primaryError, fetchVars, writeVars>>

\* lines 197-199: the fallback restart rejected: process.exit(1). Nothing
\* escapes main, so the handler of lines 205-208 has nothing to catch.
main_fatal ==
    /\ pc = "fatal"
    /\ exitCode' = <<1>>
    /\ pc' = "exited"
    /\ UNCHANGED <<fs, programText, newCode, primaryError, fallbackInvoked, fetchVars,
                   writeVars, restartVars>>

Init == InitCommon /\ pc = "read"

Next ==
    \/ main_read
    \/ secureFetch_request
    \/ secureFetch_sleep
    \/ main_afterFetch
    \/ safeWrite_writeTemp
    \/ safeWrite_validate
    \/ safeWrite_backup
    \/ safeWrite_commit
    \/ safeWrite_cleanTemp
    \/ safeWrite_restore
    \/ main_afterWrite
    \/ main_restart
    \/ main_catch
    \/ main_fatal

Spec == Init /\ [][Next]_vars

\* the event loop runs every continuation that is ready
FairSpec == Spec /\ WF_vars(Next)

----------------------------------------------------------------------------
(* Properties *)

WriteFinished == wpc \in {"returned", "raised"}

\* every required pattern matches the text, and the text is all there
CompleteAndValid(text) == text.whole /\ requiredPatterns \subseteq text.markers

\* C1 (as claimed): when safeWriteWithBackup is called on a target holding C
\* with content that fails validateCodeIntegrity, then, whatever other files
\* are on disk, the call raises and the target still holds exactly C.
C1_InvalidLeavesTarget ==
    (WriteFinished /\ pre # Absent /\ ~validateCodeIntegrity(content))
        => (wpc = "raised" /\ fs[targetPath] = pre)

\* C2: when safeWriteWithBackup is called on a target holding C with content
\* N that passes validation and the call returns, the target holds exactly N
\* and the file at targetPath + BACKUP_SUFFIX holds exactly C.
C2_SuccessReplacesAndBacksUp ==
    (wpc = "returned" /\ pre # Absent /\ CompleteAndValid(content))
        => (fs[targetPath] = content /\ fs[backupPath] = pre)

\* C2 witness: a second call in the same process returned, replacing the
\* first call's candidate and overwriting the first call's backup.
C2_Witness ==
    /\ wpc = "returned" /\ calls = 2 /\ pre.id = 1
    /\ fs[targetPath] = content /\ fs[backupPath] = pre

C4_TargetSurvivesSingleFailure ==
    (WriteFinished /\ pre # Absent /\ fsFailures <= 1) => existsSync(targetPath)

\* C4 witness: the one failure was the commit rename, after the target had
\* been moved to the backup path; the call raised and the target exists.
C4_Witness ==
    /\ wpc = "raised" /\ fsFailures = 1 /\ werror = "renameCommit"
    /\ pre # Absent /\ existsSync(targetPath)

\* C5: in every state of a run, a file at the target path is either the
\* original program text or a whole candidate that passed the validator.
C5_TargetOriginalOrValidated ==
    existsSync(targetPath) =>
        \/ fs[targetPath] = OriginalText
        \/ /\ fs[targetPath].id = 1
           /\ fs[targetPath] = newCode
           /\ CompleteAndValid(fs[targetPath])

\* C5 witness: the commit rename has put the candidate at the target path.
C5_Witness == fs[targetPath].id = 1 /\ wpc = "returned" /\ fs[backupPath] = OriginalText

\* C6 (as claimed): against a transport that fails on every attempt,
\* secureFetchWithRetry with the default budget raises its terminal error
\* after exactly MAX_RETRIES = 3 requests in total.
C6_ExactlyMaxRetriesRequests ==
    fpc = "raised" => (requests = MAX_RETRIES /\ fails = MAX_RETRIES)

\* C7: against a transport that fails k times and then succeeds, with k + 1
\* within the budget of MAX_RETRIES attempts, secureFetchWithRetry returns the
\* body having made exactly k + 1 requests and slept exactly k times, once
\* before each attempt after the first and never after the success.
C7_RetryThenSuccess ==
    /\ (fpc = "returned" /\ fails + 1 <= MAX_RETRIES)
          => (requests = fails + 1 /\ sleeps = fails /\ response \in Responses)
    /\ fpc = "request" => sleeps = requests

\* C7 witness: two failures, then a success: three requests, two sleeps.
C7_Witness == fpc = "returned" /\ fails = 2 /\ requests = 3 /\ sleeps = 2

\* C8 (as claimed): a restart sequence whose child reports a non-zero exit or
\* a spawn error makes exactly MAX_RESTART_ATTEMPTS = 5 spawn attempts and ends
\* by raising the exhaustion error, the process not exiting with code 0.
C8_FiveAttemptsThenExhausted ==
    (rpc \in {"exited", "raised"} /\ lastSpawn \in {"nonZeroExit", "spawnError"})
        => (spawns = MAX_RESTART_ATTEMPTS /\ rerror = "exhausted" /\ exitCode # <<0>>)

\* C9 (as claimed): a run ends with exit code 0 or 1; it ends with 0 only
\* when the last spawn was clean (no spawn error, no non-zero child exit), and
\* with 1 whenever the fallback restart failed.
C9_ExitCodes ==
    pc = "exited" =>
        /\ exitCode \in {<<0>>, <<1>>}
        /\ exitCode = <<0>> => lastSpawn = "clean"
        /\ (fallbackInvoked /\ lastSpawn # "clean") => exitCode = <<1>>

PrimaryFailed == primaryError # "none" \/ fpc = "raised" \/ werror # "none"

\* C10: whenever a step of the primary path fails, the fallback
\* restartProcess is eventually invoked; the catch path changes no file; and
\* a run whose candidate lacks the API-key pattern ends with the target still
\* the original text and the fallback restart invoked.
C10_FailureLeadsToFallback ==
    /\ [](PrimaryFailed => <>fallbackInvoked)
    /\ [][(pc = "catch" \/ pc = "fatal") => fs' = fs]_vars
    /\ []((pc = "exited" /\ newCode # Absent /\ API_KEY_PATTERN \notin newCode.markers)
            => (fs[targetPath] = OriginalText /\ fallbackInvoked))

\* C10 witness: the candidate lacked the API-key pattern, the replace raised
\* the integrity error, and the fallback restart ran with the target intact.
C10_Witness ==
    /\ pc = "exited" /\ primaryError = "integrity" /\ fallbackInvoked
    /\ API_KEY_PATTERN \notin newCode.markers
    /\ fs[targetPath] = OriginalText /\ fs[FailedPathOf(1)] = newCode

\* C11: a run in which the file read succeeds, the remote service returns a
\* candidate Y matching every pattern, no filesystem operation fails and the
\* spawn is clean ends with the target holding Y, the backup file holding the
\* original text, restartProcess invoked once (not the fallback), one child
\* spawned and exit code 0.
C11_SuccessPath ==
    (pc = "exited" /\ programText # Absent /\ newCode # Absent
        /\ requiredPatterns \subseteq newCode.markers
        /\ fsFailures = 0 /\ lastSpawn = "clean" /\ rerror = "none")
        => /\ fs[targetPath] = newCode
           /\ fs[backupPath] = OriginalText
           /\ ~fallbackInvoked
           /\ children = 1
           /\ exitCode = <<0>>

\* C11 witness: such a run has ended, after one failed request and a retry.
C11_Witness ==
    /\ pc = "exited" /\ exitCode = <<0>> /\ children = 1 /\ ~fallbackInvoked
    /\ fs[targetPath] = newCode /\ fs[backupPath] = OriginalText
    /\ newCode.markers = requiredPatterns /\ fsFailures = 0 /\ lastSpawn = "clean"
    /\ fails = 1

\* the remote step failed: the retries ran out, or the response has no
\* non-empty string at choices[0].message.content
RemoteFailed == primaryError \in {"apiFailed", "invalidResponse", "typeError"}

\* C12 (as claimed): a run whose remote step fails writes no file at all
\* (no temp, backup or .failed file, target unchanged), does not retry a bad
\* response shape, invokes the fallback restart, and exits with 0 if that
\* restart succeeds (a clean spawn) and with 1 otherwise.
C12_RemoteFailureNoWriteAndExit ==
    (pc = "exited" /\ RemoteFailed)
        => /\ fs = InitFiles /\ calls = 0
           /\ fpc = "returned" => requests = fails + 1
           /\ fallbackInvoked
           /\ exitCode = (IF lastSpawn = "clean" THEN <<0>> ELSE <<1>>)

\* C12, the part that holds of the code: no file is written, a bad shape is
\* not retried and the fallback restart is invoked.
C12_RemoteFailureNoWrite ==
    RemoteFailed
        => /\ fs = InitFiles /\ calls = 0 /\ wpc = "idle"
           /\ fpc = "returned" => requests = fails + 1
           /\ pc = "exited" => fallbackInvoked

\* (a) the target holds the validated candidate and a replacement process
\* was successfully spawned
ReplacedAndRestarted ==
    /\ newCode # Absent /\ fs[targetPath] = newCode
    /\ newCode.whole /\ requiredPatterns \subseteq newCode.markers
    /\ lastSpawn = "clean" /\ exitCode = <<0>>

\* (b) the target holds the original program text, unchanged
LeftIntact == fs[targetPath] = OriginalText

\* C13 (as claimed): when the process of a run terminates, exactly one of
\* (a) and (b) holds: no run ends with the target replaced and no replacement
\* process started, and none ends with the target missing.
C13_OutcomeDichotomy ==
    pc = "exited" =>
        /\ ReplacedAndRestarted \/ LeftIntact
        /\ ~(ReplacedAndRestarted /\ LeftIntact)

\* no file replace is in progress: none was begun, or the call has finished
ReplaceNotInProgress == wpc \in {"idle", "returned", "raised"}

C15_ValidAllPatternsOnly ==
    [][wpc = "validate" =>
          /\ (wpc' = "backup") = (content.markers = requiredPatterns)
          /\ (wpc' = "cleanTemp" /\ werror' = "integrity") = (content.markers # requiredPatterns)
          /\ fs' = fs /\ exitCode' = exitCode /\ pc' = pc /\ content' = content]_vars

\* C15 witness: a candidate lacking exactly one pattern has been rejected.
C15_Witness ==
    /\ wpc = "cleanTemp" /\ werror = "integrity"
    /\ Cardinality(content.markers) = NumPatterns - 1

C17_TargetExistsThroughout ==
    (wpc # "idle" /\ pre # Absent) => (existsSync(targetPath) /\ fs[targetPath].whole)

\* C18 (as claimed): after safeWriteWithBackup finishes on any path, no file
\* remains at the temp path.
C18_NoTempLeft == WriteFinished => ~existsSync(tempPath)

\* C18 (amended): after safeWriteWithBackup finishes, a file remains at the
\* temp path only if the rename to tempPath.failed was tried and failed; on
\* success the temp file has become the target, and on an error path it was
\* never created or is now at tempPath.failed.
C18_TempLeftOnlyIfCleanupFailed ==
    WriteFinished =>
        /\ existsSync(tempPath) = (cleanup = "failed")
        /\ wpc = "returned" => (cleanup = "none" /\ fs[targetPath] = content)
        /\ cleanup = "renamed" => fs[failedPath] \in {content, Partial(content)}
        /\ cleanup = "noTemp" => werror = "writeFile"

\* C18 witness: the integrity check failed and the temp file was renamed to
\* tempPath.failed before the error was raised.
C18_Witness ==
    /\ wpc = "raised" /\ werror = "integrity" /\ cleanup = "renamed"
    /\ ~existsSync(tempPath) /\ fs[failedPath] = content

\* C19 (as claimed): whenever a step of the try block fails, the error that
\* reaches the caller is that step's error, never one raised by the cleanup
\* or the rollback.
C19_OriginalErrorRethrown == wpc = "raised" => (werror # "none" /\ wraised = werror)

\* C20 (as claimed): a call that fails before its own backup step (temp
\* write or integrity failure), made after an earlier call of the same
\* process left a backup file, leaves the target with the content it had
\* when this call was made.
C20_RollbackOnlyOwnBackup ==
    (wpc = "raised" /\ calls > 1 /\ werror \in {"writeFile", "integrity"})
        => fs[targetPath] = pre

====
